---- MODULE Spec2Model ----
(***************************************************************************)
(* Givens rotations for quantum chemistry                                  *)
(* (demonstrations/tutorial_givens_rotations.py).                          *)
(*                                                                         *)
(* The tutorial builds small circuits out of particle-conserving gates and *)
(* simulates them on a state-vector device.  The model keeps the state     *)
(* vector exactly: every amplitude the tutorial's angles can produce lies  *)
(* in the field Q(sqrt 2, sqrt 3), so an amplitude is                      *)
(*     (a + b*sqrt2 + c*sqrt3 + d*sqrt6) / den                             *)
(* stored as the reduced tuple <<a, b, c, d, den>> with den > 0.           *)
(* Floating point rounding of numpy is not modelled.                       *)
(***************************************************************************)
EXTENDS Integers, Sequences, FiniteSets, TLC

(***************************************************************************)
(* Exact arithmetic on amplitudes.                                         *)
(***************************************************************************)
Abs(n) == IF n < 0 THEN -n ELSE n

RECURSIVE GCD(_, _)
GCD(m, n) == IF n = 0 THEN m ELSE GCD(n, m % n)

Zero == <<0, 0, 0, 0, 1>>
One == <<1, 0, 0, 0, 1>>

Rat(p, q) ==
    LET g == GCD(Abs(p), Abs(q))
        s == IF q < 0 THEN -1 ELSE 1
    IN  <<(s * p) \div g, 0, 0, 0, (s * q) \div g>>

Reduce(a, b, c, d, den) ==
    LET g == GCD(GCD(GCD(GCD(Abs(den), Abs(a)), Abs(b)), Abs(c)), Abs(d))
    IN  <<a \div g, b \div g, c \div g, d \div g, den \div g>>

Neg(u) == <<-u[1], -u[2], -u[3], -u[4], u[5]>>

Add(u, v) ==
    IF u = Zero THEN v
    ELSE IF v = Zero THEN u
    ELSE LET g == GCD(u[5], v[5])
             p == v[5] \div g
             q == u[5] \div g
         IN  Reduce(u[1] * p + v[1] * q, u[2] * p + v[2] * q,
                    u[3] * p + v[3] * q, u[4] * p + v[4] * q, u[5] * p)

Sub(u, v) == Add(u, Neg(v))

Mul(u, v) ==
    IF u = Zero \/ v = Zero THEN Zero
    ELSE IF u = One THEN v
    ELSE IF v = One THEN u
    ELSE Reduce(
        u[1] * v[1] + 2 * u[2] * v[2] + 3 * u[3] * v[3] + 6 * u[4] * v[4],
        u[1] * v[2] + u[2] * v[1] + 3 * (u[3] * v[4] + u[4] * v[3]),
        u[1] * v[3] + u[3] * v[1] + 2 * (u[2] * v[4] + u[4] * v[2]),
        u[1] * v[4] + u[4] * v[1] + u[2] * v[3] + u[3] * v[2],
        u[5] * v[5])

\* np.sqrt of a non-negative rational p/q whose square-free part is 1, 2, 3 or 6.
Sqrt(u) ==
    LET n == u[1] * u[5]
        m == CHOOSE m \in {1, 2, 3, 6} : \E k \in 0..n : k * k * m = n
        k == CHOOSE k \in 0..n : k * k * m = n
    IN  Reduce(IF m = 1 THEN k ELSE 0, IF m = 2 THEN k ELSE 0,
               IF m = 3 THEN k ELSE 0, IF m = 6 THEN k ELSE 0, u[5])

(***************************************************************************)
(* Rotation angles.  A gate only reads cos(theta/2) and sin(theta/2), so   *)
(* an angle theta is the pair <<cos(theta/2), sin(theta/2)>>.              *)
(***************************************************************************)
Angle(c, s) == <<c, s>>
CosHalf(theta) == theta[1]
SinHalf(theta) == theta[2]

\* fault: arcsin taken where the script takes arccos
MinusTwoArccosAsArcsin(v) == Angle(Sqrt(Sub(One, Mul(v, v))), Neg(v))

\* -2 * np.arccos(v), 0 <= v <= 1: theta/2 = -arccos(v), arccos(v) in [0, pi/2].
MinusTwoArccos(v) == Angle(v, Neg(Sqrt(Sub(One, Mul(v, v)))))

\* -2 * np.arcsin(v), 0 <= v <= 1: theta/2 = -arcsin(v), arcsin(v) in [0, pi/2].
MinusTwoArcsin(v) == Angle(Sqrt(Sub(One, Mul(v, v))), Neg(v))

\* -np.pi/2: theta/2 = -pi/4.
MinusHalfPi == Angle(Sqrt(Rat(1, 2)), Neg(Sqrt(Rat(1, 2))))

(***************************************************************************)
(* Basis states.  Entry i of a state vector on n wires is the basis state  *)
(* whose occupations, wire 0 first, are the binary digits of i.            *)
(***************************************************************************)
Dim(n) == 2 ^ n

\* occupation of wire w in basis state i of an n-wire register
Occ(i, w, n) == (i \div (2 ^ (n - 1 - w))) % 2

\* np.binary_repr(i, width): the digits of i, most significant first
RECURSIVE binary_repr(_, _)
binary_repr(i, width) ==
    IF width = 0 THEN <<>>
    ELSE Append(binary_repr(i \div 2, width - 1), i % 2)

RECURSIVE Weight(_)
Weight(bits) ==
    IF bits = <<>> THEN 0 ELSE Head(bits) + Weight(Tail(bits))

\* index of the basis state with occupation bits[k] on wire wires[k]
RECURSIVE IndexOf(_, _, _)
IndexOf(bits, wires, n) ==
    IF bits = <<>> THEN 0
    ELSE Head(bits) * (2 ^ (n - 1 - Head(wires)))
         + IndexOf(Tail(bits), Tail(wires), n)

\* the occupations of the wires of a gate, read as a number (first wire first)
RECURSIVE Loc(_, _, _)
Loc(i, wires, n) ==
    IF wires = <<>> THEN 0
    ELSE Occ(i, Head(wires), n) * (2 ^ (Len(wires) - 1))
         + Loc(i, Tail(wires), n)

\* basis state i with the occupations of the gate's wires replaced by l
RECURSIVE Embed(_, _, _, _)
Embed(i, wires, l, n) ==
    IF wires = <<>> THEN i
    ELSE LET w == Head(wires)
             b == (l \div (2 ^ (Len(wires) - 1))) % 2
         IN  Embed(i + (b - Occ(i, w, n)) * (2 ^ (n - 1 - w)),
                   Tail(wires), l, n)

\* fault: wire 0 taken as the least significant digit of the entry
BasisVectorLittleEndian(bits, wires, n) ==
    [i \in 0..(Dim(n) - 1) |->
        IF i = IndexOf(bits, [k \in 1..Len(wires) |-> n - 1 - wires[k]], n)
        THEN One ELSE Zero]

\* |bits> on the given wires, every other amplitude 0
BasisVector(bits, wires, n) ==
    [i \in 0..(Dim(n) - 1) |-> IF i = IndexOf(bits, wires, n) THEN One ELSE Zero]

(***************************************************************************)
(* Gates.                                                                  *)
(***************************************************************************)
\* an operation queued by a quantum function: its name, its angle, the wires
\* it acts on and, for BasisState, the occupations it prepares
Op(name, theta, wires, n) == <<name, theta, wires, n>>
OpName(o) == o[1]
OpAngle(o) == o[2]
OpWires(o) == o[3]
OpBits(o) == o[4]

NoAngle == Angle(One, Zero)

BasisState(n, wires) == Op("BasisState", NoAngle, wires, n)
SingleExcitation(theta, wires) == Op("SingleExcitation", theta, wires, <<>>)
DoubleExcitation(theta, wires) == Op("DoubleExcitation", theta, wires, <<>>)
ControlledSingleExcitation(theta, wires) ==
    Op("ControlledSingleExcitation", theta, wires, <<>>)

\* fault: the other sign convention, G|lo> = cos|lo> - sin|hi>
GivensOtherSign(theta, lo, hi, r, c) ==
    IF r = lo /\ c = lo THEN CosHalf(theta)
    ELSE IF r = hi /\ c = lo THEN Neg(SinHalf(theta))
    ELSE IF r = hi /\ c = hi THEN CosHalf(theta)
    ELSE IF r = lo /\ c = hi THEN SinHalf(theta)
    ELSE IF r = c THEN One ELSE Zero

\* fault: the minus sign of G(theta) left out, so the matrix is not orthogonal
GivensNotOrthogonal(theta, lo, hi, r, c) ==
    IF r = lo /\ c = lo THEN CosHalf(theta)
    ELSE IF r = hi /\ c = lo THEN SinHalf(theta)
    ELSE IF r = hi /\ c = hi THEN CosHalf(theta)
    ELSE IF r = lo /\ c = hi THEN SinHalf(theta)
    ELSE IF r = c THEN One ELSE Zero

\* Entry (r, c) of the Givens rotation G(theta) that mixes the occupations
\* lo and hi of the gate's wires and is the identity on every other one:
\*   G|lo> = cos(theta/2)|lo> + sin(theta/2)|hi>
\*   G|hi> = cos(theta/2)|hi> - sin(theta/2)|lo>
Givens(theta, lo, hi, r, c) ==
    IF r = lo /\ c = lo THEN CosHalf(theta)
    ELSE IF r = hi /\ c = lo THEN SinHalf(theta)
    ELSE IF r = hi /\ c = hi THEN CosHalf(theta)
    ELSE IF r = lo /\ c = hi THEN Neg(SinHalf(theta))
    ELSE IF r = c THEN One ELSE Zero

\* fault: the single excitation mixes |01> with |11>, which has one more particle
CoupledLosingParticle(name) ==
    CASE name = "SingleExcitation" -> <<1, 3>>
      [] name = "DoubleExcitation" -> <<3, 12>>
      [] name = "ControlledSingleExcitation" -> <<5, 6>>

\* fault: the controlled gate mixes |001> and |010>, whatever the control qubit
CoupledIgnoringControl(name) ==
    CASE name = "SingleExcitation" -> <<1, 2>>
      [] name = "DoubleExcitation" -> <<3, 12>>
      [] name = "ControlledSingleExcitation" -> <<1, 2>>

\* The two occupations of its wires a gate mixes, as <<lo, hi>>:
\*   SingleExcitation            |01>   and |10>
\*   DoubleExcitation            |0011> and |1100>
\*   ControlledSingleExcitation  |101>  and |110>
Coupled(name) ==
    CASE name = "SingleExcitation" -> <<1, 2>>
      [] name = "DoubleExcitation" -> <<3, 12>>
      [] name = "ControlledSingleExcitation" -> <<5, 6>>

\* entry (r, c) of the matrix of a gate
Matrix(o, r, c) ==
    Givens(OpAngle(o), Coupled(OpName(o))[1], Coupled(OpName(o))[2], r, c)

\* The device multiplies the state by the gate's matrix on the wires the gate
\* acts on.  A row of the matrix outside the two coupled occupations is a row
\* of the identity, a coupled row has the two coupled columns.
ApplyMatrix(o, psi, n) ==
    LET w == OpWires(o)
        lo == Coupled(OpName(o))[1]
        hi == Coupled(OpName(o))[2]
        mll == Matrix(o, lo, lo)
        mlh == Matrix(o, lo, hi)
        mhl == Matrix(o, hi, lo)
        mhh == Matrix(o, hi, hi)
    IN  [i \in 0..(Dim(n) - 1) |->
            LET r == Loc(i, w, n)
            IN  IF r = lo
                THEN Add(Mul(mll, psi[i]), Mul(mlh, psi[Embed(i, w, hi, n)]))
                ELSE IF r = hi
                THEN Add(Mul(mhl, psi[Embed(i, w, lo, n)]), Mul(mhh, psi[i]))
                ELSE psi[i]]

\* the state of an nw-wire device after it executes one operation
Apply(o, psi, nw) ==
    IF OpName(o) = "BasisState" THEN BasisVector(OpBits(o), OpWires(o), nw)
    ELSE ApplyMatrix(o, psi, nw)

(***************************************************************************)
(* The quantum functions of the tutorial, as the operations they queue.    *)
(***************************************************************************)
circuit(x, y) ==
    << BasisState(<<1, 0, 0>>, <<0, 1, 2>>),
       SingleExcitation(x, <<0, 1>>),
       SingleExcitation(y, <<0, 2>>) >>

circuit2(x, y, singles, doubles) ==
    << BasisState(<<1, 1, 1, 0, 0, 0>>, <<0, 1, 2, 3, 4, 5>>) >>
    \o [i \in 1..Len(singles) |-> SingleExcitation(x[i], singles[i])]
    \o [j \in 1..Len(doubles) |-> DoubleExcitation(y[j], doubles[j])]

\* fault: "qubits two and four" taken as wires [2, 4]
circuit3_wires_from_one(x, y, z) ==
    << BasisState(<<1, 1, 0, 0, 0, 0>>, [i \in 1..6 |-> i - 1]),
       DoubleExcitation(x, <<0, 1, 2, 3>>),
       DoubleExcitation(y, <<0, 1, 4, 5>>),
       SingleExcitation(z, <<2, 4>>) >>

circuit3(x, y, z) ==
    << BasisState(<<1, 1, 0, 0, 0, 0>>, [i \in 1..6 |-> i - 1]),
       DoubleExcitation(x, <<0, 1, 2, 3>>),
       DoubleExcitation(y, <<0, 1, 4, 5>>),
       SingleExcitation(z, <<1, 3>>) >>

\* fault: the single excitation controlled on the third qubit
controlled_on_third_qubit(x, y, z) ==
    << BasisState(<<1, 1, 0, 0, 0, 0>>, [i \in 1..6 |-> i - 1]),
       DoubleExcitation(x, <<0, 1, 2, 3>>),
       DoubleExcitation(y, <<0, 1, 4, 5>>),
       ControlledSingleExcitation(z, <<2, 1, 3>>) >>

\* circuit3 with its single excitation controlled on the first qubit
controlled_circuit3(x, y, z) ==
    << BasisState(<<1, 1, 0, 0, 0, 0>>, [i \in 1..6 |-> i - 1]),
       DoubleExcitation(x, <<0, 1, 2, 3>>),
       DoubleExcitation(y, <<0, 1, 4, 5>>),
       ControlledSingleExcitation(z, <<0, 1, 3>>) >>

(***************************************************************************)
(* qml.qchem.excitations: the single and double excitations of the         *)
(* Hartree-Fock state that preserve spin (even orbitals spin up, odd       *)
(* orbitals spin down), in increasing order.                               *)
(***************************************************************************)
nr_particles == 3
nr_qubits == 6

RECURSIVE SortedSeq(_)
SortedSeq(S) ==
    IF S = {} THEN <<>>
    ELSE LET m == CHOOSE u \in S : \A v \in S :
                      \E k \in 1..(Len(u) + 1) :
                          /\ \A j \in 1..(k - 1) : u[j] = v[j]
                          /\ (k <= Len(u) => u[k] < v[k])
         IN  <<m>> \o SortedSeq(S \ {m})

Sz(p) == IF p % 2 = 0 THEN 1 ELSE -1

excitations(electrons, orbitals) ==
    LET occ == 0..(electrons - 1)
        vir == electrons..(orbitals - 1)
    IN  [doubles |-> SortedSeq({e \in (occ \X occ \X vir \X vir) :
                                   /\ e[1] < e[2]
                                   /\ e[3] < e[4]
                                   /\ Sz(e[3]) + Sz(e[4]) = Sz(e[1]) + Sz(e[2])}),
         singles |-> SortedSeq({e \in (occ \X vir) : Sz(e[2]) = Sz(e[1])})]

(***************************************************************************)
(* The angles the model draws np.random.normal(0, 0.1, ...) from: exact    *)
(* rotations with rational cosine and sine.                                *)
(***************************************************************************)
RandomAngles == {Angle(Rat(4, 5), Rat(3, 5)), Angle(Rat(4, 5), Rat(-3, 5))}

RECURSIVE SeqsOf(_, _)
SeqsOf(S, len) ==
    IF len = 0 THEN {<<>>}
    ELSE {Append(q, e) : q \in SeqsOf(S, len - 1), e \in S}

(***************************************************************************)
(* State of the running script.                                            *)
(*   pc      the line of the statement to execute next                     *)
(*   device  the devices created so far: wire count and state vector       *)
(*   qnode   the device each QNode was bound to when it was decorated      *)
(*   env     the module-level names                                        *)
(*   run     the QNode being executed and the operations it still queues   *)
(*   ref     the occupations the running QNode's BasisState prepared       *)
(*   op      the operation the device executed last                        *)
(*   ngates  the number of gates executed since the last BasisState        *)
(*   stdout  what the script has printed                                   *)
(***************************************************************************)
VARIABLES pc, device, qnode, env, run, ref, op, ngates, stdout

vars == <<pc, device, qnode, env, run, ref, op, ngates, stdout>>

Unbound == <<>>

NoRun == [dev |-> 0, qnode |-> "none", ret |-> "none", tape |-> <<>>]

\* qml.device('default.qubit', wires=n): a new device in state |0...0>
NewDeviceObject(n) ==
    [state |-> BasisVector([k \in 1..n |-> 0], [k \in 1..n |-> k - 1], n), wires |-> n]

EmptyEnv ==
    [dev |-> 0, dev2 |-> 0, doubles |-> Unbound, output |-> Unbound,
     singles |-> Unbound, states |-> Unbound, x |-> Unbound, y |-> Unbound,
     z |-> Unbound]

Init ==
    /\ pc = "L144"
    /\ device = <<>>
    /\ qnode = [circuit |-> 0, circuit2 |-> 0, circuit3 |-> 0]
    /\ env = EmptyEnv
    /\ run = NoRun
    /\ ref = <<>>
    /\ op = BasisState(<<>>, <<>>)
    /\ ngates = 0
    /\ stdout = <<>>

\* fault: assigning to a name that is bound to a device replaces that device
\* object in place, so a QNode bound to it sees the new device
DeviceStmtInPlace(line, name, n, next) ==
    /\ pc = line
    /\ IF env[name] = 0
       THEN /\ device' = Append(device, NewDeviceObject(n))
            /\ env' = [env EXCEPT ![name] = Len(device) + 1]
       ELSE /\ device' = [device EXCEPT ![env[name]] = NewDeviceObject(n)]
            /\ env' = env
    /\ pc' = next
    /\ UNCHANGED <<qnode, run, ref, op, ngates, stdout>>

\* dev = qml.device(...), dev2 = qml.device(...)
DeviceStmt(line, name, n, next) ==
    /\ pc = line
    /\ device' = Append(device, NewDeviceObject(n))
    /\ env' = [env EXCEPT ![name] = Len(device) + 1]
    /\ pc' = next
    /\ UNCHANGED <<qnode, run, ref, op, ngates, stdout>>

MakeDevice ==
    \/ DeviceStmt("L144", "dev", 3, "L146")
    \/ DeviceStmt("L197", "dev2", nr_qubits, "L199")
    \/ DeviceStmt("L289", "dev", 6, "L291")

\* @qml.qnode(d): the QNode keeps the device object the name denotes now
QNodeStmt(line, name, d, next) ==
    /\ pc = line
    /\ qnode' = [qnode EXCEPT ![name] = env[d]]
    /\ pc' = next
    /\ UNCHANGED <<device, env, run, ref, op, ngates, stdout>>

DefineQNode ==
    \/ QNodeStmt("L146", "circuit", "dev", "L154")
    \/ QNodeStmt("L199", "circuit2", "dev2", "L210")
    \/ QNodeStmt("L291", "circuit3", "dev", "L300")

AssignStmt(line, name, value, next) ==
    /\ pc = line
    /\ env' = [env EXCEPT ![name] = value]
    /\ pc' = next
    /\ UNCHANGED <<device, qnode, run, ref, op, ngates, stdout>>

AssignAngle ==
    \/ AssignStmt("L154", "x", MinusTwoArccos(Sqrt(Rat(2, 3))), "L155")
    \/ AssignStmt("L155", "y", MinusHalfPi, "L156")
    \/ AssignStmt("L300", "x", MinusTwoArcsin(Sqrt(Rat(1, 4))), "L301")
    \/ AssignStmt("L301", "y", MinusTwoArcsin(Sqrt(Rat(1, 3))), "L302")
    \/ AssignStmt("L302", "z", MinusTwoArcsin(Sqrt(Rat(1, 2))), "L304")

\* x = np.random.normal(0, 0.1, len(singles)), y likewise for doubles
AssignRandom ==
    \/ \E v \in SeqsOf(RandomAngles, Len(env.singles)) :
           AssignStmt("L210", "x", v, "L211")
    \/ \E v \in SeqsOf(RandomAngles, Len(env.doubles)) :
           AssignStmt("L211", "y", v, "L213")

\* singles, doubles = qml.qchem.excitations(3, 6), and the two prints
GetExcitations ==
    /\ pc = "L193"
    /\ LET e == excitations(nr_particles, nr_qubits)
       IN  /\ env' = [env EXCEPT !.singles = e.singles, !.doubles = e.doubles]
           /\ stdout' = stdout \o <<e.singles, e.doubles>>
    /\ pc' = "L197"
    /\ UNCHANGED <<device, qnode, run, ref, op, ngates>>

\* calling a QNode: its device is reset and the operations are queued
CallStmt(line, name, tape, next) ==
    /\ pc = line
    /\ run' = [dev |-> qnode[name], qnode |-> name, ret |-> next, tape |-> tape]
    /\ device' = [device EXCEPT ![qnode[name]] = NewDeviceObject(@.wires)]
    /\ pc' = "exec"
    /\ ref' = <<>>
    /\ ngates' = 0
    /\ UNCHANGED <<qnode, env, op, stdout>>

Call ==
    \/ CallStmt("L156", "circuit", circuit(env.x, env.y), "L193")
    \/ CallStmt("L213", "circuit2",
                circuit2(env.x, env.y, env.singles, env.doubles), "L220")
    \/ CallStmt("L304", "circuit3", circuit3(env.x, env.y, env.z), "L305")

\* the device executes the next queued operation
Exec(name) ==
    /\ pc = "exec"
    /\ run.tape # <<>>
    /\ OpName(Head(run.tape)) = name
    /\ LET o == Head(run.tape)
           d == device[run.dev]
       IN  /\ device' = [device EXCEPT ![run.dev].state = Apply(o, d.state, d.wires)]
           /\ op' = o
           /\ ref' = IF name = "BasisState" THEN OpBits(o) ELSE ref
           /\ ngates' = IF name = "BasisState" THEN 0 ELSE ngates + 1
    /\ run' = [run EXCEPT !.tape = Tail(@)]
    /\ UNCHANGED <<pc, qnode, env, stdout>>

ExecBasisState == Exec("BasisState")
ExecSingleExcitation == Exec("SingleExcitation")
ExecDoubleExcitation == Exec("DoubleExcitation")
ExecControlledSingleExcitation == Exec("ControlledSingleExcitation")

\* return qml.state(): print(circuit(x, y)) prints it, the others bind output
ExecReturn ==
    /\ pc = "exec"
    /\ run.tape = <<>>
    /\ IF run.qnode = "circuit"
       THEN /\ stdout' = Append(stdout, device[run.dev].state)
            /\ env' = env
       ELSE /\ env' = [env EXCEPT !.output = device[run.dev].state]
            /\ stdout' = stdout
    /\ pc' = run.ret
    /\ run' = NoRun
    /\ UNCHANGED <<device, qnode, ref, op, ngates>>

\* [np.binary_repr(i, width=6) for i in range(len(output)) if output[i] != 0]
NonZeroStates(output, width) ==
    LET RECURSIVE Collect(_)
        Collect(i) ==
            IF i = Dim(width) THEN <<>>
            ELSE (IF output[i] # Zero THEN <<binary_repr(i, width)>> ELSE <<>>)
                 \o Collect(i + 1)
    IN  Collect(0)

ListStates ==
    \/ AssignStmt("L220", "states", NonZeroStates(env.output, 6), "L221")
    \/ AssignStmt("L305", "states", NonZeroStates(env.output, 6), "L306")

PrintStmt(line, next) ==
    /\ pc = line
    /\ stdout' = Append(stdout, env.states)
    /\ pc' = next
    /\ UNCHANGED <<device, qnode, env, run, ref, op, ngates>>

PrintStates ==
    \/ PrintStmt("L221", "L289")
    \/ PrintStmt("L306", "done")

Next ==
    \/ MakeDevice
    \/ DefineQNode
    \/ AssignAngle
    \/ AssignRandom
    \/ GetExcitations
    \/ Call
    \/ ExecBasisState
    \/ ExecSingleExcitation
    \/ ExecDoubleExcitation
    \/ ExecReturn
    \/ ListStates
    \/ PrintStates

Spec == Init /\ [][Next]_vars

(***************************************************************************)
(* The controlled circuit of the section "Controlled excitation gates":    *)
(* circuit3 with the single excitation controlled on the first qubit, run  *)
(* on a six-wire device for any angles, the tutorial's among them.         *)
(***************************************************************************)
Angles ==
    { MinusTwoArcsin(Sqrt(Rat(1, 4))), MinusTwoArcsin(Sqrt(Rat(1, 3))),
      MinusTwoArcsin(Sqrt(Rat(1, 2))), Angle(Rat(3, 5), Rat(4, 5)) }

LabAngles == {MinusTwoArcsin(Sqrt(Rat(1, 3))), Angle(Rat(3, 5), Rat(4, 5))}

InitControlled ==
    /\ pc = "L315"
    /\ device = <<NewDeviceObject(6)>>
    /\ qnode = [circuit |-> 0, circuit2 |-> 0, circuit3 |-> 1]
    /\ \E x \in Angles, y \in Angles, z \in Angles :
           env = [EmptyEnv EXCEPT !.dev = 1, !.x = x, !.y = y, !.z = z]
    /\ run = NoRun
    /\ ref = <<>>
    /\ op = BasisState(<<>>, <<>>)
    /\ ngates = 0
    /\ stdout = <<>>

CallControlled ==
    CallStmt("L315", "circuit3", controlled_circuit3(env.x, env.y, env.z), "done")

NextControlled ==
    \/ CallControlled
    \/ ExecBasisState
    \/ ExecDoubleExcitation
    \/ ExecControlledSingleExcitation
    \/ ExecReturn

SpecControlled == InitControlled /\ [][NextControlled]_vars

(***************************************************************************)
(* Any sequence of excitation gates, on any wires and with any of the      *)
(* angles, applied to any basis state of a register.                       *)
(***************************************************************************)
LabWires == 4
MaxGates == 1

WireTuples(k, n) ==
    {w \in SeqsOf(0..(n - 1), k) : \A a, b \in 1..k : a # b => w[a] # w[b]}

LabPairs == WireTuples(2, LabWires)
LabQuads == WireTuples(4, LabWires)

InitLab ==
    /\ pc = "lab"
    /\ \E bits \in SeqsOf({0, 1}, LabWires) :
           LET o == BasisState(bits, [k \in 1..LabWires |-> k - 1])
           IN  /\ device = <<[state |-> Apply(o, NewDeviceObject(LabWires).state, LabWires),
                              wires |-> LabWires]>>
               /\ ref = bits
               /\ op = o
    /\ qnode = [circuit |-> 0, circuit2 |-> 0, circuit3 |-> 0]
    /\ env = EmptyEnv
    /\ run = [NoRun EXCEPT !.dev = 1]
    /\ ngates = 0
    /\ stdout = <<>>

LabGate(o) ==
    /\ pc = "lab"
    /\ ngates < MaxGates
    /\ device' = [device EXCEPT ![1].state = Apply(o, @, LabWires)]
    /\ ngates' = ngates + 1
    /\ UNCHANGED <<pc, qnode, env, run, ref, op, stdout>>

LabSingleExcitation ==
    \E theta \in LabAngles, w \in LabPairs :
        LabGate(SingleExcitation(theta, w))

LabDoubleExcitation ==
    \E theta \in LabAngles, w \in LabQuads :
        LabGate(DoubleExcitation(theta, w))

NextLab ==
    \/ LabSingleExcitation
    \/ LabDoubleExcitation

(***************************************************************************)
(* The tutorial's script, or any sequence of excitation gates.             *)
(***************************************************************************)
SpecAny == (Init \/ InitLab) /\ [][Next \/ NextLab]_vars

(***************************************************************************)
(* Properties.                                                             *)
(***************************************************************************)
\* the state vector and the wire count of the device that is executing
Cur == device[run.dev].state
CurWires == device[run.dev].wires

NonZero(psi) == {i \in DOMAIN psi : psi[i] # Zero}

\* the occupations of the wires w in basis state i, read off its binary string
OccOn(i, w, n) == [k \in 1..Len(w) |-> binary_repr(i, n)[w[k] + 1]]

\* basis states i and j have the same occupation on every wire outside w
SameElsewhere(i, j, w, n) ==
    \A v \in 0..(n - 1) :
        (\A k \in 1..Len(w) : w[k] # v)
            => binary_repr(i, n)[v + 1] = binary_repr(j, n)[v + 1]

\* the basis state that has occupations bits on w and agrees with i elsewhere
PartnerOf(i, w, bits, n) ==
    CHOOSE j \in 0..(Dim(n) - 1) : OccOn(j, w, n) = bits /\ SameElsewhere(i, j, w, n)

\* phi is psi with every pair of amplitudes on occupations lo and hi of the
\* wires of o rotated, G|lo> = cos|lo> + sin|hi> and G|hi> = cos|hi> - sin|lo>,
\* and every other amplitude as it was
RotatesPair(o, psi, phi, n, lo, hi) ==
    \A i \in 0..(Dim(n) - 1) :
        LET b == OccOn(i, OpWires(o), n)
            c == CosHalf(OpAngle(o))
            s == SinHalf(OpAngle(o))
        IN  phi[i] = IF b = lo
                     THEN Sub(Mul(c, psi[i]), Mul(s, psi[PartnerOf(i, OpWires(o), hi, n)]))
                     ELSE IF b = hi
                     THEN Add(Mul(c, psi[i]), Mul(s, psi[PartnerOf(i, OpWires(o), lo, n)]))
                     ELSE psi[i]

\* every basis state of phi comes from one of psi with the same occupations
\* on the wires outside w
MovesOnlyOn(w, psi, phi, n) ==
    \A j \in NonZero(phi) : \E i \in NonZero(psi) : SameElsewhere(i, j, w, n)

RECURSIVE SumSquares(_, _)
SumSquares(psi, i) ==
    IF i < 0 THEN Zero ELSE Add(Mul(psi[i], psi[i]), SumSquares(psi, i - 1))

\* the sum of the squared magnitudes of the (real) amplitudes
Norm(psi) == SumSquares(psi, Cardinality(DOMAIN psi) - 1)

\* the next step of the executing QNode is a gate of the given name
NextGateIs(name) ==
    /\ pc = "exec"
    /\ run.tape # <<>>
    /\ OpName(Head(run.tape)) = name

\* C1: once a basis state of Hamming weight k has been prepared, after any
\* sequence of SingleExcitation and DoubleExcitation gates every basis state
\* with a non-zero amplitude has Hamming weight k; and every string the
\* script prints for circuit2 has exactly three 1s.
ParticleNumberConserved ==
    /\ (run.dev # 0 /\ ref # <<>>)
          => \A i \in NonZero(Cur) : Weight(binary_repr(i, CurWires)) = Weight(ref)
    /\ Len(stdout) >= 4
          => \A k \in 1..Len(stdout[4]) : Weight(stdout[4][k]) = nr_particles

\* circuit2 has run all its gates and its state is a superposition
ConservedWitness ==
    /\ pc = "exec"
    /\ run.qnode = "circuit2"
    /\ run.tape = <<>>
    /\ Cardinality(NonZero(Cur)) > 4

\* C2: a DoubleExcitation rotates the amplitudes of the basis states with
\* occupations 0011 and 1100 on its four wires into each other with
\* cos(theta/2) and -/+ sin(theta/2), leaves every other amplitude as it was,
\* and never changes an occupation on a wire it does not act on.
DoubleExcitationCouplesTwo ==
    [][NextGateIs("DoubleExcitation") =>
          LET o == Head(run.tape)
              phi == device'[run.dev].state
          IN  /\ RotatesPair(o, Cur, phi, CurWires, <<0, 0, 1, 1>>, <<1, 1, 0, 0>>)
              /\ MovesOnlyOn(OpWires(o), Cur, phi, CurWires)]_vars

\* a DoubleExcitation has just mixed two basis states with non-zero
\* amplitudes, next to a third one that it does not act on
DoubleExcitationWitness ==
    /\ pc = "exec"
    /\ OpName(op) = "DoubleExcitation"
    /\ \E i, j, k \in NonZero(Cur) :
           /\ OccOn(i, OpWires(op), CurWires) = <<0, 0, 1, 1>>
           /\ OccOn(j, OpWires(op), CurWires) = <<1, 1, 0, 0>>
           /\ OccOn(k, OpWires(op), CurWires) \notin {<<0, 0, 1, 1>>, <<1, 1, 0, 0>>}

\* C3: a SingleExcitation by any angle keeps the norm of the state equal to 1,
\* leaves the amplitudes of the basis states with |00> and |11> on its two
\* wires as they were, and rotates those with |01> and |10> into each other
\* with cos(theta/2) and -/+ sin(theta/2) as in G(theta).
SingleExcitationPreservesNorm ==
    [][NextGateIs("SingleExcitation") =>
          LET o == Head(run.tape)
              phi == device'[run.dev].state
          IN  /\ Norm(Cur) = One
              /\ Norm(phi) = One
              /\ RotatesPair(o, Cur, phi, CurWires, <<0, 1>>, <<1, 0>>)
              /\ \A i \in NonZero(phi) : Weight(binary_repr(i, CurWires)) = Weight(ref)]_vars

\* a SingleExcitation has just mixed two basis states with non-zero amplitudes
SingleExcitationWitness ==
    /\ pc = "exec"
    /\ OpName(op) = "SingleExcitation"
    /\ \E i, j \in NonZero(Cur) :
           /\ OccOn(i, OpWires(op), CurWires) = <<0, 1>>
           /\ OccOn(j, OpWires(op), CurWires) = <<1, 0>>
           /\ SameElsewhere(i, j, OpWires(op), CurWires)

\* C4: circuit(x, y) with x = -2*arccos(sqrt(2/3)) and y = -pi/2 prints the
\* equal superposition of the one-particle states: the populations of 001,
\* 010 and 100 are 1/3 each and every other population is 0.
EqualSuperposition ==
    Len(stdout) >= 1 =>
        \A i \in 0..7 :
            Mul(stdout[1][i], stdout[1][i]) =
                IF binary_repr(i, 3) \in {<<0, 0, 1>>, <<0, 1, 0>>, <<1, 0, 0>>}
                THEN Rat(1, 3) ELSE Zero

\* the script has printed the state circuit(x, y) returned
EqualSuperpositionWitness ==
    /\ pc = "L193"
    /\ Len(stdout) = 1
    /\ Cardinality(NonZero(stdout[1])) = 3

\* C5: the entries of a state vector are ordered by the binary digits of the
\* basis state with wire 0 first: BasisState([1, 0, 0]) on wires [0, 1, 2] is
\* entry 4, a prepared basis state is the entry whose binary_repr lists its
\* occupations, a gate changes the digits of its own wires only, and the
\* printed output of circuit is non-zero at entries 1, 2 and 4 exactly.
OutputOrderedByBinaryRepr ==
    /\ (pc = "exec" /\ run.qnode = "circuit" /\ ref = <<1, 0, 0>> /\ ngates = 0)
          => (NonZero(Cur) = {4} /\ Cur[4] = One)
    /\ (pc = "exec" /\ ref # <<>> /\ ngates = 0)
          => \A i \in NonZero(Cur) : binary_repr(i, CurWires) = ref
    /\ (pc = "exec" /\ ref # <<>> /\ ngates = 1)
          => \A i \in NonZero(Cur) : \A v \in 0..(CurWires - 1) :
                 (\A k \in 1..Len(OpWires(op)) : OpWires(op)[k] # v)
                     => binary_repr(i, CurWires)[v + 1] = ref[v + 1]
    /\ Len(stdout) >= 1 => NonZero(stdout[1]) = {1, 2, 4}

\* circuit has prepared |100> and applied its first gate
OrderedWitness ==
    /\ pc = "exec"
    /\ run.qnode = "circuit"
    /\ ngates = 1
    /\ Cardinality(NonZero(Cur)) = 2

\* the state (|110000> + |001100> + |000011> + |100100>)/2
Target ==
    [i \in 0..63 |->
        IF binary_repr(i, 6) \in {<<1, 1, 0, 0, 0, 0>>, <<0, 0, 1, 1, 0, 0>>,
                                  <<0, 0, 0, 0, 1, 1>>, <<1, 0, 0, 1, 0, 0>>}
        THEN Rat(1, 2) ELSE Zero]

\* C6: circuit3 does not prepare the target state: its single excitation on
\* wires [1, 3] also couples |001100> to |011000>, which share the population
\* 1/4 that |001100> had, so the printed list is 000011, 001100, 011000,
\* 100100, 110000.
Circuit3ReachesUnwantedState ==
    Len(stdout) >= 5 =>
        /\ stdout[5] = << <<0, 0, 0, 0, 1, 1>>, <<0, 0, 1, 1, 0, 0>>,
                          <<0, 1, 1, 0, 0, 0>>, <<1, 0, 0, 1, 0, 0>>,
                          <<1, 1, 0, 0, 0, 0>> >>
        /\ env.output # Target
        /\ Add(Mul(env.output[12], env.output[12]),
               Mul(env.output[24], env.output[24])) = Rat(1, 4)

\* the script has printed the basis states of circuit3's output
Circuit3Witness ==
    /\ pc = "done"
    /\ Len(stdout) = 5
    /\ env.output[24] # Zero

\* C7: with the single excitation controlled on the first qubit and the
\* angles of the tutorial, the circuit prepares the target state: exactly
\* 110000, 001100, 000011 and 100100 have a non-zero amplitude, each with
\* population 1/4, and 011000 does not appear.
ControlledCircuitPreparesTarget ==
    (/\ pc = "done"
     /\ env.x = MinusTwoArcsin(Sqrt(Rat(1, 4)))
     /\ env.y = MinusTwoArcsin(Sqrt(Rat(1, 3)))
     /\ env.z = MinusTwoArcsin(Sqrt(Rat(1, 2))))
        => /\ env.output = Target
           /\ env.output[24] = Zero
           /\ \A i \in NonZero(env.output) :
                  Mul(env.output[i], env.output[i]) = Rat(1, 4)

\* the controlled circuit has run with the angles of the tutorial
ControlledCircuitWitness ==
    /\ pc = "done"
    /\ env.x = MinusTwoArcsin(Sqrt(Rat(1, 4)))
    /\ env.y = MinusTwoArcsin(Sqrt(Rat(1, 3)))
    /\ env.z = MinusTwoArcsin(Sqrt(Rat(1, 2)))
    /\ env.output[36] # Zero

RECURSIVE RunTape(_, _, _)
RunTape(tape, psi, n) ==
    IF tape = <<>> THEN psi
    ELSE RunTape(Tail(tape), Apply(Head(tape), psi, n), n)

Fresh(n) == NewDeviceObject(n).state

====
